---- MODULE Spec2Model ----
(***************************************************************************)
(* A model of quiz2json.py: the Configs value object (construction and     *)
(* validate_config), the line classifier of convert, and the question      *)
(* assembly loop of convert with Question.is_ready,                         *)
(* Question.populate_last_fields, detect_correct_answer and                 *)
(* Question.to_json.                                                        *)
(*                                                                          *)
(* Text is modelled as a sequence of one-character strings, so that the     *)
(* string operations of the code (strip, index, split, join, int, regular   *)
(* expression prefix matching) are computed rather than assumed.            *)
(***************************************************************************)
EXTENDS Integers, Sequences, FiniteSets, TLC

\* ------------------------------------------------------------------------
\* Bounds of the model
\* ------------------------------------------------------------------------

\* most lines the classifier keeps of a document (lines it drops are not
\* counted), the fake end question not included
MaxLines == 4

\* ------------------------------------------------------------------------
\* Characters and Python string operations
\* ------------------------------------------------------------------------

Digit == {"0", "1", "7"}
Lower == {"a", "b", "c", "q", "s"}
Upper == {"A"}
Whitespace == {" "}
Symbol == {"-", "*", ".", ")", ":", "\\"}

\* every character a line of a document may contain ('.' of a regex matches
\* each of them: none is a newline)
AnyChar == Digit \cup Lower \cup Upper \cup Whitespace \cup Symbol

\* str.isalnum() of one character
isalnum(ch) == ch \in Digit \cup Lower \cup Upper

\* s[i:] with a 0-based Python index i >= 0
SliceFrom(s, i) == IF i >= Len(s) THEN << >> ELSE SubSeq(s, i + 1, Len(s))

\* s[:i] with a 0-based Python index i >= 0
SliceTo(s, i) == IF i <= 0 THEN << >> ELSE SubSeq(s, 1, IF i > Len(s) THEN Len(s) ELSE i)

RECURSIVE lstrip(_)
lstrip(s) == IF s # << >> /\ Head(s) \in Whitespace THEN lstrip(Tail(s)) ELSE s

RECURSIVE rstrip(_)
rstrip(s) ==
  IF s # << >> /\ s[Len(s)] \in Whitespace THEN rstrip(SubSeq(s, 1, Len(s) - 1)) ELSE s

\* str.strip()
strip(s) == rstrip(lstrip(s))

\* str.index(sep) for a separator of length 0 or 1: the 0-based position of
\* the first occurrence, -1 standing for the ValueError of a missing one
index(s, sep) ==
  IF sep = ""
    THEN 0
    ELSE IF \E i \in 1..Len(s) : s[i] = sep
           THEN (CHOOSE i \in 1..Len(s) : s[i] = sep /\ \A j \in 1..(i - 1) : s[j] # sep) - 1
           ELSE -1

\* str.split(" "): the pieces between single spaces (empty pieces are kept)
RECURSIVE split(_)
split(s) ==
  IF \E i \in 1..Len(s) : s[i] = " "
    THEN LET i == CHOOSE k \in 1..Len(s) : s[k] = " " /\ \A j \in 1..(k - 1) : s[j] # " "
         IN  << SubSeq(s, 1, i - 1) >> \o split(SubSeq(s, i + 1, Len(s)))
    ELSE << s >>

\* ' '.join(parts)
RECURSIVE join(_)
join(parts) ==
  IF parts = << >> THEN << >>
  ELSE IF Len(parts) = 1 THEN parts[1]
  ELSE parts[1] \o << " " >> \o join(Tail(parts))

DigitValue(ch) == CASE ch = "0" -> 0 [] ch = "1" -> 1 [] ch = "7" -> 7 [] OTHER -> 0

RECURSIVE DigitsValue(_)
DigitsValue(s) ==
  IF s = << >> THEN 0 ELSE DigitsValue(SubSeq(s, 1, Len(s) - 1)) * 10 + DigitValue(s[Len(s)])

\* whether int(s) succeeds: an optional sign followed by at least one digit
IsIntLiteral(s) ==
  LET body == IF s # << >> /\ Head(s) = "-" THEN Tail(s) ELSE s
  IN  body # << >> /\ \A i \in 1..Len(body) : body[i] \in Digit

\* int(s) for a literal that int accepts
int(s) == IF s # << >> /\ Head(s) = "-" THEN 0 - DigitsValue(Tail(s)) ELSE DigitsValue(s)

\* ------------------------------------------------------------------------
\* Regular expressions: a compiled pattern is a sequence of atoms, each a
\* set of characters matched once or (plus) one or more times
\* ------------------------------------------------------------------------

One(S) == [chars |-> S, plus |-> FALSE]
Plus(S) == [chars |-> S, plus |-> TRUE]

\* whether pattern p matches a prefix of text s (re.match)
RECURSIVE re_match(_, _)
re_match(p, s) ==
  IF p = << >> THEN TRUE
  ELSE IF s = << >> \/ Head(s) \notin Head(p).chars THEN FALSE
  ELSE \/ re_match(Tail(p), Tail(s))
       \/ Head(p).plus /\ re_match(p, Tail(s))

regex_startswith(line, pattern) == re_match(pattern, line)

\* ------------------------------------------------------------------------
\* Optional values (None of Python): the empty tuple, or a one-element tuple
\* ------------------------------------------------------------------------

None == << >>
Some(x) == << x >>

\* ------------------------------------------------------------------------
\* Configs
\* ------------------------------------------------------------------------

\* self._allowed_question_identifiers: identifier name -> regex fragment
_allowed_question_identifiers == [numbers |-> "d+"]

_allowed_question_symbol_separators == {".", ")"}

\* self._allowed_option_identifiers: identifier name -> regex fragment
_allowed_option_identifiers ==
  [lowercase_letters |-> "[a-z]", uppercase_letters |-> "[A-Z]", ticks |-> "-", numbers |-> "d+"]

_allowed_option_symbol_separators == {".", ")", ""}

\* The value re.compile gives for the question pattern
\*   rf"\ {fragment}\ {separator}\s".replace(" ", "")
\* The backslash written before the fragment turns "d+" into the digit class;
\* the backslash written before the separator escapes it, and with an empty
\* separator it escapes the backslash of "\s" instead.
question_pattern(fragment, separator) ==
  IF separator = ""
    THEN << Plus(Digit), One({"\\"}), One({"s"}) >>
    ELSE << Plus(Digit), One({separator}), One(Whitespace) >>

\* the atoms of an option identifier fragment, which is used unescaped
fragment_atoms(fragment) ==
  CASE fragment = "[a-z]" -> << One(Lower) >>
    [] fragment = "[A-Z]" -> << One(Upper) >>
    [] fragment = "-" -> << One({"-"}) >>
    [] fragment = "d+" -> << Plus({"d"}) >>

\* separators that make rf"{fragment}{separator}\s" an invalid regular
\* expression (an unbalanced parenthesis), so that re.compile raises re.error
UnbalancedSeparators == {")", "("}

\* The value re.compile gives for the option pattern
\*   rf"{fragment}{separator}\s"
\* in which the separator is not escaped: "." matches any character
option_pattern(fragment, separator) ==
  fragment_atoms(fragment)
    \o (CASE separator = "" -> << >>
          [] separator = "." -> << One(AnyChar) >>
          [] OTHER -> << One({separator}) >>)
    \o << One(Whitespace) >>

\* Configs.__post_init__: "ok", or the exception that construction raises
post_init(c) ==
  IF c.question_identifier \notin DOMAIN _allowed_question_identifiers THEN "KeyError"
  ELSE IF c.option_identifier \notin DOMAIN _allowed_option_identifiers THEN "KeyError"
  ELSE IF c.option_symbol_separator \in UnbalancedSeparators THEN "re.error"
  ELSE "ok"

\* self.question_matcher and self.option_matcher of a constructed Configs
question_matcher(c) ==
  question_pattern(_allowed_question_identifiers[c.question_identifier],
                   c.question_symbol_separator)

option_matcher(c) ==
  option_pattern(_allowed_option_identifiers[c.option_identifier],
                 c.option_symbol_separator)

\* Configs.validate_config: the returned tuple (status, message)
validate_config(c) ==
  IF c.find_correct_answer /\ c.correct_answer_identifier = ""
    THEN << -1, "ERROR! Inconsistent parameters. Correct answer identifier is not given" >>
  ELSE IF c.drop_questions_without_correct_answer /\ ~c.find_correct_answer
    THEN << -1, "ERROR! Inconsistent parameters. We can't drop questions without correct answer" >>
  ELSE IF c.question_identifier \notin DOMAIN _allowed_question_identifiers
    THEN << -1, "ERROR! not a valid question identifier" >>
  ELSE IF c.question_symbol_separator \notin _allowed_question_symbol_separators
    THEN << -1, "ERROR! not a valid question symbol separator" >>
  ELSE IF c.option_identifier \notin DOMAIN _allowed_option_identifiers
    THEN << -1, "ERROR! not a valid option identifier" >>
  ELSE IF c.option_symbol_separator \notin _allowed_option_symbol_separators
    THEN << -1, "ERROR! not a valid option symbol separator" >>
  ELSE IF ~c.find_correct_answer /\ c.correct_answer_identifier # ""
    THEN << 0, "WARNING! Inconsistent parameters. Correct answer identifier is given" >>
  ELSE << 1, "" >>

\* ------------------------------------------------------------------------
\* The external PDF layer: extracted text lines
\* ------------------------------------------------------------------------

\* image_bytes.find(b"PLTE") finds a palette chunk in the PNG
has_PLTE(png) == png \in {"plte_white", "plte_yellow"}

\* The bytes image_bytes[PLTE_index + 4 : PLTE_index + 4 + 3] of the PNG that
\* rendering a character's box gives.  With a palette chunk they are its first
\* RGB triple.  Without one, bytes.find gives -1 and the slice is bytes 3..5
\* of the PNG signature 89 50 4E 47 0D 0A 1A 0A.
color_palette(png) ==
  CASE png = "plte_white" -> << 255, 255, 255 >>
    [] png = "plte_yellow" -> << 255, 255, 0 >>
    [] png = "no_plte" -> << 71, 13, 10 >>

\* An extracted line: its text, its left margin x0, and what the code reads of
\* its character records: how many there are (nchars), the font name of
\* chars[1] (fontname) and the PNG that rendering the box of chars[2] gives.
Line(text, x0, nchars, fontname, png) ==
  [text |-> text, x0 |-> x0, nchars |-> nchars, fontname |-> fontname, png |-> png]

Plain(text, x0) == Line(text, x0, Len(text), "Arial", "plte_white")
Marked(text, x0) == Line(text, x0, Len(text), "Arial-BoldMT", "plte_yellow")

\* str.lower() of the font names of the model
lower(fontname) ==
  CASE fontname = "Arial" -> "arial"
    [] fontname = "Arial-BoldMT" -> "arial-boldmt"

\* needle in haystack, for the needles and the lower-cased font names of the
\* model (the empty string is in every string)
contains(haystack, needle) ==
  \/ needle = ""
  \/ needle = "bold" /\ haystack = "arial-boldmt"

\* the lines a document of the model is made of
Lines ==
  { Plain(<< "1", ".", " ", "q" >>, 1),
    Plain(<< "0", ".", " ", "q" >>, 1),
    Plain(<< "7", ")", " ", "q" >>, 1),
    Plain(<< "a", ".", " ", "b" >>, 2),
    Marked(<< "a", ".", " ", "b" >>, 2),
    Plain(<< "c" >>, 2),
    Plain(<< "s" >>, 1) }

\* the lines of a document whose layout is explored: question lines at two
\* margins, lines matching neither pattern at and right of the first margin
\* (a bullet, a plain word), option lines with one or two spaces after the
\* separator, and option lines whose characters are highlighted, rendered
\* without a palette chunk, or fewer than three
LayoutLines ==
  { Plain(<< "1", ".", " ", "q" >>, 1),
    Plain(<< "7", ".", " ", "q" >>, 2),
    Plain(<< "a", ".", " ", "b" >>, 2),
    Plain(<< "a", ".", " ", " ", "b" >>, 2),
    Line(<< "a", ".", " ", "b" >>, 2, 4, "Arial", "plte_yellow"),
    Line(<< "a", ".", " ", "b" >>, 2, 4, "Arial", "no_plte"),
    Line(<< "a", ".", " ", "b" >>, 2, 2, "Arial", "plte_yellow"),
    Plain(<< "*", " ", "b" >>, 2),
    Plain(<< "*", " ", "b" >>, 1),
    Plain(<< "c" >>, 2),
    Plain(<< "c" >>, 1) }

\* ------------------------------------------------------------------------
\* LineType and Question
\* ------------------------------------------------------------------------

\* LineType(line_raw, line_type); line_text is line_raw["text"]
LineType(line_raw, line_type) == [line_raw |-> line_raw, line_type |-> line_type]

line_text(line) == line.line_raw.text

\* Question(): the defaults of the dataclass
NewQuestion ==
  [question_number |-> None, question_body |-> None, options |-> << >>,
   answer_idx_container |-> << -1 >>, answer_str_container |-> << >>,
   single_options |-> {}]

\* list.remove(x): the list without the first occurrence of x
remove(list, x) ==
  IF \E i \in 1..Len(list) : list[i] = x
    THEN LET i == CHOOSE k \in 1..Len(list) : list[k] = x /\ \A j \in 1..(k - 1) : list[j] # x
         IN  SubSeq(list, 1, i - 1) \o SubSeq(list, i + 1, Len(list))
    ELSE list

contains_item(list, x) == \E i \in 1..Len(list) : list[i] = x

\* the truth value Python gives an optional integer, an optional string, a list
truthy_number(n) == n # None /\ n[1] # 0
truthy_string(t) == t # None /\ t[1] # << >>
truthy_list(l) == l # << >>

\* Question.is_ready, first part: the question after the side effect of the
\* call (the sentinel is removed when questions without answer are dropped)
is_ready_effect(q, drop_questions_without_correct_answer) ==
  IF drop_questions_without_correct_answer
    THEN [q EXCEPT !.answer_idx_container = remove(@, -1)]
    ELSE q

\* is_ready with the options requirement forgotten
is_ready_without_options_rule(q, drop_answer, drop_options) ==
  LET after == is_ready_effect(q, drop_answer)
  IN  /\ truthy_number(after.question_number)
      /\ truthy_string(after.question_body)
      /\ drop_answer => truthy_list(after.answer_idx_container)

\* Question.is_ready, second part: the returned value, all(base_required_fields)
is_ready(q, drop_questions_without_correct_answer, drop_questions_without_options) ==
  LET after == is_ready_effect(q, drop_questions_without_correct_answer)
  IN  /\ truthy_number(after.question_number)
      /\ truthy_string(after.question_body)
      /\ drop_questions_without_correct_answer => truthy_list(after.answer_idx_container)
      /\ drop_questions_without_options => truthy_list(after.options)

\* populate_last_fields without the filter answer_idx != -1: options[-1] is
\* the last option
populate_last_fields_keeping_sentinel(q) ==
  IF Len(q.options) = 0
    THEN q
    ELSE [q EXCEPT
           !.single_options = { << << "option", i >>, q.options[i] >> : i \in 1..Len(q.options) },
           !.answer_str_container =
              IF Len(q.answer_idx_container) > 0
                THEN [k \in 1..Len(q.answer_idx_container) |->
                        IF q.answer_idx_container[k] = -1
                          THEN q.options[Len(q.options)]
                          ELSE q.options[q.answer_idx_container[k] + 1]]
                ELSE @]

\* Question.populate_last_fields; the dictionary single_options is the set of
\* its (key, value) pairs, the key "option<i>" being the pair ("option", i)
populate_last_fields(q) ==
  IF Len(q.options) = 0
    THEN q
    ELSE [q EXCEPT
           !.single_options = { << << "option", i >>, q.options[i] >> : i \in 1..Len(q.options) },
           !.answer_str_container =
              IF Len(q.answer_idx_container) > 0
                THEN LET kept == SelectSeq(q.answer_idx_container, LAMBDA a : a # -1)
                     IN  [k \in 1..Len(kept) |-> q.options[kept[k] + 1]]
                ELSE @]

\* Question.to_json
to_json(q, minimize_size) ==
  IF minimize_size
    THEN [question_number |-> q.question_number, question_body |-> q.question_body,
          options |-> q.options, answer_idx_container |-> q.answer_idx_container]
    ELSE q

\* ------------------------------------------------------------------------
\* Answer detection
\* ------------------------------------------------------------------------

\* get_answer_on_bold: None (falsy) with fewer than two characters
get_answer_on_bold(line_raw, c) ==
  /\ line_raw.nchars > 1
  /\ contains(lower(line_raw.fontname), c.correct_answer_identifier)

\* get_answer_on_highlight: None (falsy) with fewer than three characters
get_answer_on_highlight(line_raw) ==
  /\ line_raw.nchars >= 3
  /\ color_palette(line_raw.png) # << 255, 255, 255 >>

\* the verdict detect_correct_answer acts on
verdict(line_raw, c) ==
  \/ c.correct_answer_identifier = "bold" /\ get_answer_on_bold(line_raw, c)
  \/ c.correct_answer_identifier = "highlight" /\ get_answer_on_highlight(line_raw)

\* list.pop(): the list without its last element
pop(list) == SubSeq(list, 1, Len(list) - 1)

\* detect_correct_answer with the sentinel left in place
detect_correct_answer_keeping_sentinel(q, line, c) ==
  IF verdict(line.line_raw, c)
    THEN [q EXCEPT !.answer_idx_container = @ \o << Len(q.options) - 1 >>]
    ELSE q

\* detect_correct_answer: the question after the call
detect_correct_answer(q, line, c) ==
  IF verdict(line.line_raw, c)
    THEN [q EXCEPT !.answer_idx_container =
            (IF contains_item(@, -1) THEN pop(@) ELSE @) \o << Len(q.options) - 1 >>]
    ELSE q

\* ------------------------------------------------------------------------
\* Inputs: the configurations a caller constructs
\* ------------------------------------------------------------------------

Configs(find, identifier, drop_answer, drop_options, q_ident, q_sep, o_ident, o_sep, minimize) ==
  [find_correct_answer |-> find,
   correct_answer_identifier |-> identifier,
   drop_questions_without_correct_answer |-> drop_answer,
   drop_questions_without_options |-> drop_options,
   question_identifier |-> q_ident,
   question_symbol_separator |-> q_sep,
   option_identifier |-> o_ident,
   option_symbol_separator |-> o_sep,
   minimize_json_size |-> minimize]

\* the configurations explored for construction and validation
ConfigSpace ==
  { Configs(f, i, da, do, qi, qs, oi, os, m) :
      f \in BOOLEAN, i \in {"", "bold", "highlight"}, da \in BOOLEAN, do \in BOOLEAN,
      qi \in {"numbers", "letters"}, qs \in {".", ")", "", ":"},
      oi \in {"lowercase_letters", "ticks", "symbols"}, os \in {".", ")", "", ":"},
      m \in BOOLEAN }

\* the configurations explored for convert
ConvertConfigs ==
  { c \in ConfigSpace :
      /\ c.question_identifier = "numbers"
      /\ c.question_symbol_separator \in {".", ")", ""}
      /\ c.option_identifier = "lowercase_letters"
      /\ c.option_symbol_separator = "." }

\* the configurations explored with the documents of LayoutLines
LayoutConfigs ==
  { c \in ConvertConfigs :
      /\ c.find_correct_answer
      /\ c.correct_answer_identifier \in {"bold", "highlight"}
      /\ ~c.drop_questions_without_correct_answer
      /\ ~c.drop_questions_without_options
      /\ c.question_symbol_separator = "."
      /\ ~c.minimize_json_size }

\* ------------------------------------------------------------------------
\* State
\* ------------------------------------------------------------------------

VARIABLES
  pc,                  \* where the run is: "new", "configured", "validated",
                       \* "parsing", "packing", "done", or the exception raised
  config,              \* the Configs object, None before construction
  status,              \* what validate_config returned, None when not called
  line_type_stack,     \* convert: the classified lines
  trash_x_threshold,   \* convert: the content threshold, None until set
  idx,                 \* convert: the index the assembly loop is at
  question,            \* convert: the open question
  questions_stack,     \* convert: the finalized questions
  json_container       \* convert: the returned list, None before the return

vars == << pc, config, status, line_type_stack, trash_x_threshold, idx, question,
           questions_stack, json_container >>

convert_vars == << line_type_stack, trash_x_threshold, idx, question, questions_stack,
                   json_container >>

cfg == config[1]

Init ==
  /\ pc = "new"
  /\ config = None
  /\ status = None
  /\ line_type_stack = << >>
  /\ trash_x_threshold = None
  /\ idx = 0
  /\ question = NewQuestion
  /\ questions_stack = << >>
  /\ json_container = None

\* ------------------------------------------------------------------------
\* Configs(...) and validate_config()
\* ------------------------------------------------------------------------

\* Configs(...): the dataclass constructor followed by __post_init__
Construct(space) ==
  /\ pc = "new"
  /\ \E c \in space :
       /\ config' = Some(c)
       /\ pc' = IF post_init(c) = "ok" THEN "configured" ELSE post_init(c)
  /\ UNCHANGED << status, convert_vars >>

\* a caller's config.validate_config()
ValidateConfig ==
  /\ pc = "configured"
  /\ status' = Some(validate_config(cfg))
  /\ pc' = "validated"
  /\ UNCHANGED << config, convert_vars >>

\* ------------------------------------------------------------------------
\* convert: the line classifier
\* ------------------------------------------------------------------------

\* convert is entered: pdfplumber.open, line_type_stack = [], trash_x_threshold = None
BeginParsing ==
  /\ pc = "configured"
  /\ pc' = "parsing"
  /\ line_type_stack' = << >>
  /\ trash_x_threshold' = None
  /\ UNCHANGED << config, status, idx, question, questions_stack, json_container >>

\* classify with a missing threshold taken for a threshold left of every line
classify_without_threshold(line, c, threshold) ==
  IF regex_startswith(line.text, question_matcher(c)) THEN "Q"
  ELSE IF regex_startswith(line.text, option_matcher(c)) THEN "O"
  ELSE IF threshold = None \/ line.x0 > threshold[1]
    THEN IF ~isalnum(line.text[1]) THEN "O" ELSE "C"
  ELSE ""

\* classify with a line at the threshold taken for content
classify_from_threshold(line, c, threshold) ==
  IF regex_startswith(line.text, question_matcher(c)) THEN "Q"
  ELSE IF regex_startswith(line.text, option_matcher(c)) THEN "O"
  ELSE IF threshold # None /\ line.x0 >= threshold[1]
    THEN IF ~isalnum(line.text[1]) THEN "O" ELSE "C"
  ELSE ""

\* the type the classifier gives a line, "" for a line it drops
classify(line, c, threshold) ==
  IF regex_startswith(line.text, question_matcher(c)) THEN "Q"
  ELSE IF regex_startswith(line.text, option_matcher(c)) THEN "O"
  ELSE IF threshold # None /\ line.x0 > threshold[1]
    THEN IF ~isalnum(line.text[1]) THEN "O" ELSE "C"
  ELSE ""

\* one iteration of the loop over page.extract_text_lines(), on the given line
ClassifyStep(line) ==
  /\ pc = "parsing"
  /\ Len(line_type_stack) < MaxLines
  /\ LET t == classify(line, cfg, trash_x_threshold)
     IN  /\ line_type_stack' =
              IF t = "" THEN line_type_stack ELSE Append(line_type_stack, LineType(line, t))
         /\ trash_x_threshold' =
              IF t = "Q" /\ trash_x_threshold = None THEN Some(line.x0) ELSE trash_x_threshold
  /\ UNCHANGED << pc, config, status, idx, question, questions_stack, json_container >>

\* one iteration of the loop, the next line of the document being any of lines
ClassifyLine(lines) == \E line \in lines : ClassifyStep(line)

\* FakeEndQuestion with the separator forgotten
FakeEndQuestionBare(c) == LineType([text |-> << "-", "1" >>], "Q")

\* FakeEndQuestion with the type of a continuation line
FakeEndQuestionAsContinuation(c) ==
  LineType([text |-> << "-", "1" >> \o
                     (IF c.question_symbol_separator = ""
                        THEN << >> ELSE << c.question_symbol_separator >>)], "C")

\* the fake end question: LineType({"text": f"-1{separator}"}, "Q")
FakeEndQuestion(c) ==
  LineType([text |-> << "-", "1" >> \o
                     (IF c.question_symbol_separator = ""
                        THEN << >> ELSE << c.question_symbol_separator >>)], "Q")

\* the pages are exhausted: the fake end question is appended and the
\* assembly loop is set up
ParsingOver ==
  /\ pc = "parsing"
  /\ pc' = "packing"
  /\ line_type_stack' = Append(line_type_stack, FakeEndQuestion(cfg))
  /\ questions_stack' = << >>
  /\ question' = NewQuestion
  /\ idx' = 0
  /\ UNCHANGED << config, status, trash_x_threshold, json_container >>

\* ------------------------------------------------------------------------
\* convert: the assembly loop
\* ------------------------------------------------------------------------

\* the entry the loop is at (idx is 0-based)
current == line_type_stack[idx + 1]

\* line_type_stack[idx - 1]; a Python index of -1 is the last element
previous == line_type_stack[IF idx = 0 THEN Len(line_type_stack) ELSE idx]

AtLine(t) == pc = "packing" /\ idx < Len(line_type_stack) /\ current.line_type = t

\* finalized without the assignment question.question_number = len(...) + 1
finalized_keeping_number(q, c, position) ==
  populate_last_fields(is_ready_effect(q, c.drop_questions_without_correct_answer))

\* the question as appended to questions_stack when it is ready
finalized(q, c, position) ==
  [populate_last_fields(is_ready_effect(q, c.drop_questions_without_correct_answer))
     EXCEPT !.question_number = Some(position)]

\* questions_stack after the readiness test of the open question
flushed(q, stack, c) ==
  IF is_ready(q, c.drop_questions_without_correct_answer, c.drop_questions_without_options)
    THEN Append(stack, finalized(q, c, Len(stack) + 1))
    ELSE stack

\* the branch line.line_type == "Q"
PackQuestion ==
  /\ AtLine("Q")
  /\ questions_stack' = flushed(question, questions_stack, cfg)
  /\ LET text == line_text(current)
         split_idx == index(text, cfg.question_symbol_separator)
         question_number == SliceTo(text, split_idx)
         question_body == SliceFrom(text, split_idx + 1)
         opened == [NewQuestion EXCEPT !.question_body = Some(strip(question_body))]
     IN  IF split_idx = -1
           THEN /\ pc' = "ValueError"
                /\ question' = NewQuestion
                /\ idx' = idx
         ELSE IF ~IsIntLiteral(strip(question_number))
           THEN /\ pc' = "ValueError"
                /\ question' = opened
                /\ idx' = idx
         ELSE /\ pc' = pc
              /\ question' = [opened EXCEPT !.question_number = Some(int(strip(question_number)))]
              /\ idx' = idx + 1
  /\ UNCHANGED << config, status, line_type_stack, trash_x_threshold, json_container >>

\* ' '.join(line.line_text[1:].split(" ")[1:])
option_text(text) == join(Tail(split(SliceFrom(text, 1))))

\* the branch line.line_type == "O"
PackOption ==
  /\ AtLine("O")
  /\ LET appended == [question EXCEPT !.options = Append(@, option_text(line_text(current)))]
     IN  question' = IF cfg.find_correct_answer
                       THEN detect_correct_answer(appended, current, cfg)
                       ELSE appended
  /\ idx' = idx + 1
  /\ UNCHANGED << pc, config, status, line_type_stack, trash_x_threshold, questions_stack,
                  json_container >>

\* the branch line.line_type == "C"
PackContinuation ==
  /\ AtLine("C")
  /\ IF previous.line_type = "O"
       THEN IF question.options = << >>
              THEN pc' = "IndexError" /\ question' = question /\ idx' = idx
              ELSE /\ question' = [question EXCEPT !.options[Len(question.options)] =
                                     @ \o << " " >> \o line_text(current)]
                   /\ idx' = idx + 1
                   /\ pc' = pc
     ELSE IF previous.line_type = "Q"
       THEN IF question.question_body = None
              THEN pc' = "TypeError" /\ question' = question /\ idx' = idx
              ELSE /\ question' = [question EXCEPT !.question_body =
                                     Some(@[1] \o << " " >> \o line_text(current))]
                   /\ idx' = idx + 1
                   /\ pc' = pc
     ELSE /\ question' = question
          /\ idx' = idx + 1
          /\ pc' = pc
  /\ UNCHANGED << config, status, line_type_stack, trash_x_threshold, questions_stack,
                  json_container >>

\* the loop is over: json_container is built and returned
Return ==
  /\ pc = "packing"
  /\ idx = Len(line_type_stack)
  /\ json_container' =
       Some([i \in 1..Len(questions_stack) |-> to_json(questions_stack[i], cfg.minimize_json_size)])
  /\ pc' = "done"
  /\ UNCHANGED << config, status, line_type_stack, trash_x_threshold, idx, question,
                  questions_stack >>

\* ------------------------------------------------------------------------
\* Specifications
\* ------------------------------------------------------------------------

\* main: a configuration is constructed and given to convert
Next ==
  \/ Construct(ConvertConfigs)
  \/ BeginParsing
  \/ ClassifyLine(Lines)
  \/ ParsingOver
  \/ PackQuestion
  \/ PackOption
  \/ PackContinuation
  \/ Return

Spec == Init /\ [][Next]_vars

\* main on the documents of LayoutLines
NextLayout ==
  \/ Construct(LayoutConfigs)
  \/ BeginParsing
  \/ ClassifyLine(LayoutLines)
  \/ ParsingOver
  \/ PackQuestion
  \/ PackOption
  \/ PackContinuation
  \/ Return

SpecLayout == Init /\ [][NextLayout]_vars

\* a caller that constructs a configuration and validates it
NextConfig ==
  \/ Construct(ConfigSpace)
  \/ ValidateConfig

SpecConfig == Init /\ [][NextConfig]_vars

\* ------------------------------------------------------------------------
\* What the claims speak of
\* ------------------------------------------------------------------------

Exceptions == {"KeyError", "re.error", "ValueError", "IndexError", "TypeError"}

\* convert has reached its assembly loop (and maybe left it)
Packing == pc \in {"packing", "done", "ValueError", "IndexError", "TypeError"}

\* convert has been entered
Converting == pc = "parsing" \/ Packing

\* the classified lines of the document: the stack without the fake end question
SourceLines ==
  IF Packing THEN SubSeq(line_type_stack, 1, Len(line_type_stack) - 1) ELSE line_type_stack

\* the returned list
Returned == json_container[1]

\* the positions lo..hi of s that hold a line of type t, in increasing order
RECURSIVE PositionsOf(_, _, _, _)
PositionsOf(s, t, lo, hi) ==
  IF lo > hi THEN << >>
  ELSE (IF s[lo].line_type = t THEN << lo >> ELSE << >>) \o PositionsOf(s, t, lo + 1, hi)

\* the position after the last line of the source question that starts at p
EndOfQuestion(s, p) ==
  LET later == PositionsOf(s, "Q", p + 1, Len(s))
  IN  IF later = << >> THEN Len(s) + 1 ELSE later[1]

\* the positions of the option lines of the source question that starts at p
OptionLinesOf(s, p) == PositionsOf(s, "O", p + 1, EndOfQuestion(s, p) - 1)

\* the position of the nearest QuestionStart or OptionStart line before the
\* entry the loop is at, 0 when there is none
NearestMarker ==
  LET markers == { p \in 1..idx : line_type_stack[p].line_type \in {"Q", "O"} }
  IN  IF markers = {} THEN 0 ELSE CHOOSE p \in markers : \A r \in markers : r <= p

\* the position of the QuestionStart line that opened the open question, 0
\* when the open question is the initial one
OpeningLine ==
  LET starts == { p \in 1..idx : line_type_stack[p].line_type = "Q" }
  IN  IF starts = {} THEN 0 ELSE CHOOSE p \in starts : \A r \in starts : r <= p

\* the 0-based indices, among the options of the open question, of the
\* option lines read so far on which the configured strategy gives a
\* positive verdict
PositiveOptions ==
  LET lines == PositionsOf(line_type_stack, "O", OpeningLine + 1, idx)
  IN  SelectSeq([k \in 1..Len(lines) |-> k - 1],
                LAMBDA i : verdict(line_type_stack[lines[i + 1]].line_raw, cfg))

IsPrefix(a, b) == Len(a) <= Len(b) /\ SubSeq(b, 1, Len(a)) = a

\* ------------------------------------------------------------------------
\* C1
\* ------------------------------------------------------------------------

\* the stream is N QuestionStart lines, each followed by K >= 1 OptionStart
\* lines, each of these followed by 0, 1 or 2 Continuation lines
RoundTripStream(s) ==
  /\ s # << >> => s[1].line_type = "Q"
  /\ \A p \in 1..Len(s) :
       /\ s[p].line_type = "Q" => p < Len(s) /\ s[p + 1].line_type = "O"
       /\ s[p].line_type = "C" =>
            \/ s[p - 1].line_type = "O"
            \/ s[p - 1].line_type = "C" /\ s[p - 2].line_type = "O"

\* no source question of the stream is one that a drop policy discards: each
\* has options, and has an option with a positive verdict when questions
\* without correct answer are dropped
NoDropPolicyTriggered(s) ==
  \A p \in 1..Len(s) :
    s[p].line_type = "Q" =>
      /\ OptionLinesOf(s, p) # << >>
      /\ cfg.drop_questions_without_correct_answer =>
           /\ cfg.find_correct_answer
           /\ \E k \in 1..Len(OptionLinesOf(s, p)) :
                verdict(s[OptionLinesOf(s, p)[k]].line_raw, cfg)

\* the returned list has one question per source question, in source order,
\* each with one option per option line of its source question, in source
\* order, starting with the text of that line
SameQuestionsAndOptions(s, out) ==
  LET starts == PositionsOf(s, "Q", 1, Len(s))
  IN  /\ Len(out) = Len(starts)
      /\ \A i \in 1..Len(starts) :
           i <= Len(out) =>
             LET lines == OptionLinesOf(s, starts[i])
             IN  /\ Len(out[i].options) = Len(lines)
                 /\ out[i].question_body # None
                 /\ \A j \in 1..Len(lines) :
                      j <= Len(out[i].options) =>
                        IsPrefix(option_text(line_text(s[lines[j]])), out[i].options[j])

\* C1: for every classified stream of N QuestionStart lines, each followed by
\* K >= 1 OptionStart lines, each followed by 0..2 Continuation lines, with no
\* drop policy triggered, convert returns exactly N questions in source
\* order, the i-th with exactly the K options of the i-th source question.
C1_RoundTrip ==
  (pc = "done" /\ RoundTripStream(SourceLines) /\ NoDropPolicyTriggered(SourceLines))
    => SameQuestionsAndOptions(SourceLines, Returned)

\* ------------------------------------------------------------------------
\* C2
\* ------------------------------------------------------------------------

\* C2: every Continuation line's text is appended, joined with one space, to
\* the target of the nearest preceding QuestionStart or OptionStart line: the
\* body after a QuestionStart, the last option after an OptionStart; also
\* when the Continuation immediately follows another Continuation.
C2_ContinuationAppended ==
  [][ (AtLine("C") /\ NearestMarker > 0) =>
        IF line_type_stack[NearestMarker].line_type = "Q"
          THEN question'.question_body =
                 Some(question.question_body[1] \o << " " >> \o line_text(current))
          ELSE question'.options =
                 [question.options EXCEPT ![Len(question.options)] =
                    @ \o << " " >> \o line_text(current)] ]_vars

\* ------------------------------------------------------------------------
\* C3
\* ------------------------------------------------------------------------

\* C3: no question of the list convert returns holds the sentinel -1 in its
\* answer_idx_container, whatever the configuration.
C3_NoSentinelInOutput ==
  pc = "done" =>
    \A i \in 1..Len(Returned) : ~contains_item(Returned[i].answer_idx_container, -1)

\* ------------------------------------------------------------------------
\* C4
\* ------------------------------------------------------------------------

\* one of the documented invalid combinations
DocumentedInvalid(c) ==
  \/ c.find_correct_answer /\ c.correct_answer_identifier = ""
  \/ c.drop_questions_without_correct_answer /\ ~c.find_correct_answer
  \/ c.question_identifier \notin {"numbers"}
  \/ c.question_symbol_separator \notin {".", ")"}
  \/ c.option_identifier \notin {"lowercase_letters", "uppercase_letters", "ticks", "numbers"}
  \/ c.option_symbol_separator \notin {".", ")", ""}

\* C4: for every configuration, validate_config returns the error status -1,
\* as a returned value and not as a raised exception, exactly when the
\* configuration is one of the documented invalid combinations; every other
\* configuration gets status 0 or 1.
C4_ValidateRejectsExactly ==
  /\ pc \notin Exceptions
  /\ pc = "validated" =>
       IF DocumentedInvalid(cfg) THEN status[1][1] = -1 ELSE status[1][1] \in {0, 1}

\* ------------------------------------------------------------------------
\* C5
\* ------------------------------------------------------------------------

\* C5: no line is classified and no question is assembled under a
\* configuration that validate_config rejects with -1.
C5_ValidatedBeforeParsing ==
  Converting => validate_config(cfg)[1] # -1

\* ------------------------------------------------------------------------
\* C6
\* ------------------------------------------------------------------------

NoQuestionLine == \A p \in 1..Len(SourceLines) : SourceLines[p].line_type # "Q"

\* C6: for every document in which no line matches the question pattern, and
\* every allowed question separator, convert raises no error and returns an
\* empty list.
C6_NoQuestionsEmptyOutput ==
  (/\ Packing
   /\ cfg.question_symbol_separator \in _allowed_question_symbol_separators
   /\ NoQuestionLine)
    => /\ pc \notin Exceptions
       /\ questions_stack = << >>
       /\ pc = "done" => Returned = << >>

\* a document of option lines only, some with a positive verdict, has been
\* converted
C6_Witness ==
  /\ pc = "done"
  /\ cfg.question_symbol_separator \in _allowed_question_symbol_separators
  /\ cfg.find_correct_answer
  /\ NoQuestionLine
  /\ Len(SourceLines) >= 2
  /\ \E p \in 1..Len(SourceLines) : verdict(SourceLines[p].line_raw, cfg)
  /\ Returned = << >>

\* ------------------------------------------------------------------------
\* C7
\* ------------------------------------------------------------------------

\* C7: a QuestionStart line whose number token cannot be coerced to an
\* integer does not stop the assembly loop: only that question is dropped.
C7_ParseErrorIsolated == pc # "ValueError"

\* ------------------------------------------------------------------------
\* C8
\* ------------------------------------------------------------------------

StrictlyIncreasing(list) == \A i, j \in 1..Len(list) : i < j => list[i] < list[j]

\* C8: with answer detection enabled, answer_idx_container of the open
\* question is exactly [-1] while no option had a positive verdict, and
\* otherwise exactly the strictly increasing list of the indices of the
\* options that had one; so every entry but the sentinel is a valid option
\* index, none is duplicated, and the sentinel never stands beside an index.
C8_AnswerIndices ==
  (pc = "packing" /\ cfg.find_correct_answer) =>
    LET container == question.answer_idx_container
    IN  /\ container = IF PositiveOptions = << >> THEN << -1 >> ELSE PositiveOptions
        /\ StrictlyIncreasing(container)
        /\ container # << -1 >> =>
             \A i \in 1..Len(container) :
               container[i] >= 0 /\ container[i] < Len(question.options)

\* a second positive verdict has been recorded after a negative one
C8_Witness ==
  /\ pc = "packing"
  /\ cfg.find_correct_answer
  /\ question.answer_idx_container = << 0, 2 >>
  /\ Len(question.options) = 3

\* ------------------------------------------------------------------------
\* C9
\* ------------------------------------------------------------------------

\* the enabled optional requirements of readiness are met by the open question
OptionalRequirementsMet ==
  /\ cfg.drop_questions_without_correct_answer =>
       \E i \in 1..Len(question.answer_idx_container) : question.answer_idx_container[i] # -1
  /\ cfg.drop_questions_without_options => question.options # << >>

\* C9: on a QuestionStart, an open question whose number and body are present
\* (not None), a number 0 and an empty body included, and which meets the
\* enabled optional requirements, is finalized and appended to the output.
C9_PresentMeansReady ==
  [][ (/\ AtLine("Q")
       /\ question.question_number # None
       /\ question.question_body # None
       /\ OptionalRequirementsMet)
        => /\ Len(questions_stack') = Len(questions_stack) + 1
           /\ questions_stack'[Len(questions_stack')].question_body = question.question_body
    ]_vars

\* ------------------------------------------------------------------------
\* C10
\* ------------------------------------------------------------------------

\* C10: an open question with a non-zero number and a non-empty body is
\* appended at the next QuestionStart exactly when (questions without options
\* are kept or it has an option) and (questions without correct answer are
\* kept or one of its options had a positive verdict); a kept question without
\* options is output with empty options, a discarded one leaves the output
\* list as it was.
C10_KeptExactlyWhen ==
  [][ (/\ AtLine("Q")
       /\ question.question_number # None
       /\ question.question_number # Some(0)
       /\ question.question_body # None
       /\ question.question_body # Some(<< >>))
        => IF /\ ~cfg.drop_questions_without_options \/ question.options # << >>
              /\ \/ ~cfg.drop_questions_without_correct_answer
                 \/ cfg.find_correct_answer /\ PositiveOptions # << >>
             THEN /\ Len(questions_stack') = Len(questions_stack) + 1
                  /\ SubSeq(questions_stack', 1, Len(questions_stack)) = questions_stack
                  /\ questions_stack'[Len(questions_stack')].options = question.options
                  /\ questions_stack'[Len(questions_stack')].question_body = question.question_body
             ELSE questions_stack' = questions_stack
    ]_vars

\* of two source questions the first, with a positive verdict, was kept and
\* the second, without options, was discarded
C10_Witness ==
  /\ pc = "done"
  /\ cfg.drop_questions_without_correct_answer
  /\ ~cfg.drop_questions_without_options
  /\ Len(PositionsOf(SourceLines, "Q", 1, Len(SourceLines))) = 2
  /\ SourceLines[Len(SourceLines)].line_type = "Q"
  /\ Len(questions_stack) = 1
  /\ questions_stack[1].answer_idx_container = << 0 >>

\* ------------------------------------------------------------------------
\* C11
\* ------------------------------------------------------------------------

\* no 'Q' entry at or before position p of s
BeforeFirstQuestion(s, p) == \A r \in 1..p : s[r].line_type # "Q"

\* C11: every source line that comes before the first line matching the
\* question pattern is discarded: the classified stream never holds an entry
\* that precedes its first 'Q' entry, whatever the line's text.
C11_NothingBeforeFirstQuestion ==
  Converting => \A p \in 1..Len(SourceLines) : ~BeforeFirstQuestion(SourceLines, p)

\* C11, amended: of the source lines that come before the first line matching
\* the question pattern, those that do not match the option pattern are
\* discarded: every entry of the classified stream that precedes its first
\* 'Q' entry is an 'O' entry whose text matches the option pattern.
C11_OnlyOptionPatternBeforeFirstQuestion ==
  Converting =>
    \A p \in 1..Len(SourceLines) :
      BeforeFirstQuestion(SourceLines, p) =>
        /\ SourceLines[p].line_type = "O"
        /\ regex_startswith(line_text(SourceLines[p]), option_matcher(cfg))

\* an option line read before the first question line has been kept
C11_Witness ==
  /\ Converting
  /\ Len(SourceLines) >= 2
  /\ SourceLines[1].line_type = "O"
  /\ \E p \in 2..Len(SourceLines) : SourceLines[p].line_type = "Q"

\* ------------------------------------------------------------------------
\* C12
\* ------------------------------------------------------------------------

MatchesQuestion(line) == regex_startswith(line.text, question_matcher(cfg))
MatchesOption(line) == regex_startswith(line.text, option_matcher(cfg))

\* C12: the content threshold is the left margin of the first line matching
\* the question pattern and never changes afterwards; a line matching neither
\* pattern is dropped when its x0 is at or left of the threshold, and when its
\* x0 exceeds the threshold it is emitted as OptionStart if its first
\* character is not alphanumeric and as Continuation otherwise.
C12_Threshold ==
  [][ /\ trash_x_threshold # None => trash_x_threshold' = trash_x_threshold
      /\ \A line \in LayoutLines :
           ClassifyStep(line) =>
             /\ trash_x_threshold = None =>
                  trash_x_threshold' = IF MatchesQuestion(line) THEN Some(line.x0) ELSE None
             /\ (/\ trash_x_threshold # None
                 /\ ~MatchesQuestion(line)
                 /\ ~MatchesOption(line)) =>
                  IF line.x0 <= trash_x_threshold[1]
                    THEN line_type_stack' = line_type_stack
                    ELSE line_type_stack' =
                           Append(line_type_stack,
                                  LineType(line, IF line.text[1] \in Digit \cup Lower \cup Upper
                                                   THEN "C" ELSE "O"))
    ]_vars

\* after a first question line at margin 1, a question line at margin 2, a
\* bullet line and a plain line right of the threshold have been read
C12_Witness ==
  /\ pc = "parsing"
  /\ trash_x_threshold = Some(1)
  /\ \E p \in 1..Len(line_type_stack) :
       line_type_stack[p].line_type = "Q" /\ line_type_stack[p].line_raw.x0 = 2
  /\ \E p \in 1..Len(line_type_stack) :
       line_type_stack[p].line_type = "O" /\ line_text(line_type_stack[p])[1] = "*"
  /\ \E p \in 1..Len(line_type_stack) : line_type_stack[p].line_type = "C"

\* ------------------------------------------------------------------------
\* C13
\* ------------------------------------------------------------------------

\* text without everything up to and including its first run of whitespace
AfterFirstWhitespaceRun(text) ==
  IF \E i \in 1..Len(text) : text[i] \in Whitespace
    THEN LET i == CHOOSE k \in 1..Len(text) :
                    text[k] \in Whitespace /\ \A j \in 1..(k - 1) : text[j] \notin Whitespace
         IN  lstrip(SubSeq(text, i, Len(text)))
    ELSE << >>

\* C13: on an OptionStart the option string appended to the open question is
\* the line text with its leading marker character removed and then
\* everything up to and including the first run of whitespace removed, also
\* with several spaces after the separator and for bullet lines.
C13_OptionText ==
  [][ AtLine("O") =>
        /\ Len(question'.options) = Len(question.options) + 1
        /\ question'.options[Len(question'.options)] =
             AfterFirstWhitespaceRun(SubSeq(line_text(current), 2, Len(line_text(current))))
    ]_vars

\* ------------------------------------------------------------------------
\* C14
\* ------------------------------------------------------------------------

\* the number and the body of the question line at position p of s
SourceNumber(s, p) ==
  int(strip(SliceTo(line_text(s[p]), index(line_text(s[p]), cfg.question_symbol_separator))))

SourceBody(s, p) ==
  strip(SliceFrom(line_text(s[p]), index(line_text(s[p]), cfg.question_symbol_separator) + 1))

\* the source question that starts at p passes the readiness predicate: its
\* number and body are truthy, it has an option when questions without
\* options are dropped, and an option with a positive verdict when questions
\* without correct answer are dropped
ReadySource(s, p) ==
  /\ SourceNumber(s, p) # 0
  /\ SourceBody(s, p) # << >>
  /\ cfg.drop_questions_without_options => OptionLinesOf(s, p) # << >>
  /\ cfg.drop_questions_without_correct_answer =>
       /\ cfg.find_correct_answer
       /\ \E k \in 1..Len(OptionLinesOf(s, p)) : verdict(s[OptionLinesOf(s, p)[k]].line_raw, cfg)

\* the positions of the question lines of s that start a ready question
ReadyStarts(s) == SelectSeq(PositionsOf(s, "Q", 1, Len(s)), LAMBDA p : ReadySource(s, p))

\* C14: with an allowed question separator, the synthetic terminal
\* QuestionStart forces the flush of the final question: the returned list
\* holds every source question that passes the readiness predicate, the last
\* one of the stream included, in source order, and never the synthetic
\* terminal question.
C14_TerminalFlush ==
  (pc = "done" /\ cfg.question_symbol_separator \in _allowed_question_symbol_separators) =>
    LET s == SourceLines
        ready == ReadyStarts(s)
    IN  /\ Len(Returned) = Len(ready)
        /\ \A i \in 1..Len(ready) :
             i <= Len(Returned) =>
               /\ IsPrefix(SourceBody(s, ready[i]), Returned[i].question_body[1])
               /\ Len(Returned[i].options) = Len(OptionLinesOf(s, ready[i]))
        /\ question.question_number = Some(-1)
        /\ question.question_body = Some(<< >>)

\* two source questions, the last one with an option, have been returned
C14_Witness ==
  /\ pc = "done"
  /\ cfg.question_symbol_separator \in _allowed_question_symbol_separators
  /\ Len(ReadyStarts(SourceLines)) = 2
  /\ OptionLinesOf(SourceLines, ReadyStarts(SourceLines)[2]) # << >>
  /\ Len(Returned) = 2
  /\ Returned[2].options # << >>

\* ------------------------------------------------------------------------
\* C15
\* ------------------------------------------------------------------------

\* the indices of container that are not the sentinel, in order
NonSentinel(container) == SelectSeq(container, LAMBDA a : a # -1)

\* C15: every appended question with at least one option has
\* answer_str_container equal to the options at the non-sentinel indices of
\* answer_idx_container, in that order, and single_options equal to the map
\* from 'option<i+1>' to options[i], where options are the strings the
\* question holds when it is appended, continuation text included; with an
\* allowed separator each of them begins with the marker-stripped text of its
\* option line.
C15_DerivedFields ==
  \A n \in 1..Len(questions_stack) :
    LET q == questions_stack[n]
        kept == NonSentinel(q.answer_idx_container)
    IN  Len(q.options) >= 1 =>
          /\ Len(q.answer_str_container) = Len(kept)
          /\ \A k \in 1..Len(kept) :
               /\ kept[k] + 1 \in 1..Len(q.options)
               /\ k <= Len(q.answer_str_container) =>
                    q.answer_str_container[k] = q.options[kept[k] + 1]
          /\ q.single_options =
               { << << "option", i >>, q.options[i] >> : i \in 1..Len(q.options) }
          /\ (pc = "done" /\ cfg.question_symbol_separator \in _allowed_question_symbol_separators) =>
               LET s == SourceLines
                   p == ReadyStarts(s)[n]
                   o == OptionLinesOf(s, p)
               IN  \A i \in 1..Len(o) :
                     i <= Len(q.options) =>
                       IsPrefix(option_text(line_text(s[o[i]])), q.options[i])

\* a returned question whose correct option received continuation text
C15_Witness ==
  /\ pc = "done"
  /\ cfg.question_symbol_separator \in _allowed_question_symbol_separators
  /\ \E n \in 1..Len(questions_stack) :
       LET q == questions_stack[n]
           s == SourceLines
           o == OptionLinesOf(s, ReadyStarts(s)[n])
       IN  /\ Len(q.options) = 2
           /\ q.answer_idx_container = << 1 >>
           /\ Len(q.options[2]) > Len(option_text(line_text(s[o[2]])))
           /\ q.answer_str_container = << q.options[2] >>

\* ------------------------------------------------------------------------
\* C16
\* ------------------------------------------------------------------------

\* C16: with the highlight strategy an option line gets a positive verdict
\* only when the rendered image has a palette whose first RGB triple is not
\* pure white; a line with fewer than three characters, or whose image has no
\* palette chunk, leaves answer_idx_container unchanged and raises no error.
C16_HighlightVerdict ==
  [][(AtLine("O") /\ cfg.find_correct_answer /\ cfg.correct_answer_identifier = "highlight") =>
       LET chars == current.line_raw
       IN  /\ question'.answer_idx_container # question.answer_idx_container =>
                /\ chars.nchars >= 3
                /\ has_PLTE(chars.png)
                /\ color_palette(chars.png) # << 255, 255, 255 >>
           /\ (chars.nchars < 3 \/ ~has_PLTE(chars.png)) =>
                /\ question'.answer_idx_container = question.answer_idx_container
                /\ pc' \notin Exceptions]_vars

\* ------------------------------------------------------------------------
\* C17
\* ------------------------------------------------------------------------

\* C17: the question_number values of the appended questions, and of the
\* returned list, are exactly 1..N in output order, whatever numbers the
\* document printed.
C17_Renumbered ==
  /\ \A i \in 1..Len(questions_stack) : questions_stack[i].question_number = Some(i)
  /\ pc = "done" =>
       /\ Len(Returned) = Len(questions_stack)
       /\ \A i \in 1..Len(Returned) : Returned[i].question_number = Some(i)

\* two questions have been returned and the document printed 7 on the first
C17_Witness ==
  /\ pc = "done"
  /\ cfg.question_symbol_separator \in _allowed_question_symbol_separators
  /\ Len(Returned) = 2
  /\ Len(ReadyStarts(SourceLines)) = 2
  /\ SourceNumber(SourceLines, ReadyStarts(SourceLines)[1]) = 7

\* ------------------------------------------------------------------------
\* C18
\* ------------------------------------------------------------------------

\* the entry at position p of the stack contains the separator and the token
\* before it is an integer literal
NumberParses(p) ==
  LET text == line_text(line_type_stack[p])
      split_idx == index(text, cfg.question_symbol_separator)
  IN  split_idx # -1 /\ IsIntLiteral(strip(SliceTo(text, split_idx)))

\* C18: the assembly loop never fails on the stream the classifier produced:
\* a continuation after an option line finds a non-empty options list, a
\* continuation after a question line finds a body that is not None, and
\* every question entry, the synthetic one included, contains the separator
\* and has a number token that coerces to an integer.
C18_AssemblyNeverFails ==
  Packing =>
    /\ pc \notin {"ValueError", "IndexError", "TypeError"}
    /\ (AtLine("C") /\ previous.line_type = "O") => question.options # << >>
    /\ (AtLine("C") /\ previous.line_type = "Q") => question.question_body # None
    /\ \A p \in 1..Len(line_type_stack) :
         line_type_stack[p].line_type = "Q" => NumberParses(p)

====
